---- MODULE Spec2Model ----
(***************************************************************************)
(* Model of the two programs documented in the blog posts of this site:    *)
(*                                                                         *)
(*  - the chat form GPTForm of src/app/blog/posts/gpt-murf.mdx (React):    *)
(*    prompt, status, gptQueries, currentAudioId and the asynchronous      *)
(*    handler handlePromptSubmit;                                          *)
(*  - the prompt-to-video endpoint get_ai_video of                         *)
(*    src/app/blog/posts/dall-e-murf.mdx (FastAPI, Python): get_script,    *)
(*    the clip-assembly loop, get_final_video and the scratch files it     *)
(*    writes into the server's working directory.                          *)
(***************************************************************************)
EXTENDS Integers, Sequences, FiniteSets, TLC

VARIABLES
    \* ---- GPTForm (gpt-murf.mdx) ----
    prompt,          \* useState("") : the text of the input field
    status,          \* useState(STATUS_TYPES.IDLE)
    gptQueries,      \* useState([] as GPTQuery[])
    currentAudioId,  \* useState(undefined as number | undefined)
    audioPaused,     \* the <audio> element behind audioElementRef
    submits,         \* the pending calls of handlePromptSubmit (their closures)
    \* ---- get_ai_video (dall-e-murf.mdx), one entry per invocation ----
    pc,              \* position of the invocation in get_ai_video / get_final_video
    reply,           \* res.choices[0].message.content received by get_script
    script_arr,      \* script["script"]
    idx,             \* position of the for loop of get_ai_video in script_arr
    image_url,       \* local of the loop body
    data_list,       \* the media pairs
    calls,           \* the requests this invocation sent to DALL-E and Murf
    counter,         \* local of get_final_video
    video_clips,     \* local of get_final_video
    final_video,     \* local of get_final_video
    result,          \* what get_ai_video returned or raised
    delivered,       \* the body the caller received for a FileResponse
    files            \* the working directory of the server process

chatVars == <<prompt, status, gptQueries, currentAudioId, audioPaused, submits>>
pipeVars == <<pc, reply, script_arr, idx, image_url, data_list, calls, counter,
              video_clips, final_video, result, delivered, files>>
vars == <<chatVars, pipeVars>>

-----------------------------------------------------------------------------
(* Bounds of the model *)

MaxPromptLen == 2      \* longest text typed into the input field
MaxTurns     == 2      \* submits are cut off once gptQueries holds this many turns
MaxScriptLen == 2      \* longest script the language model returns

-----------------------------------------------------------------------------
(* Generic helpers *)

RECURSIVE SumSeq(_)
SumSeq(s) == IF s = <<>> THEN 0 ELSE Head(s) + SumSeq(Tail(s))

SeqsUpTo(S, n) == UNION {[1..k -> S] : k \in 0..n}

RemoveAt(s, k) == SubSeq(s, 1, k - 1) \o SubSeq(s, k + 1, Len(s))

-----------------------------------------------------------------------------
(*                      GPTForm  (gpt-murf.mdx)                            *)
(* A text is a sequence of characters, so that trim() is computed.         *)

Chars == {" ", "a"}
Prompts == SeqsUpTo(Chars, MaxPromptLen)

IDLE == "IDLE"
LOADING == "LOADING"

\* currentAudioId === undefined
Undefined == -1

\* What the language model may answer, and the audio file Murf makes of a text.
ChatReplies == {"r1", "r2"}
AudioFileOf(text) == <<"audioFile", text>>

RECURSIVE TrimStart(_)
TrimStart(s) == IF s # <<>> /\ Head(s) = " " THEN TrimStart(Tail(s)) ELSE s

RECURSIVE TrimEnd(_)
TrimEnd(s) ==
    IF s # <<>> /\ s[Len(s)] = " " THEN TrimEnd(SubSeq(s, 1, Len(s) - 1)) ELSE s

\* String.prototype.trim
Trim(s) == TrimEnd(TrimStart(s))

\* if (!prompt || prompt.trim() === "") return;
IsBlank(p) == p = <<>> \/ Trim(p) = <<>>

\* gptQueries.forEach(... messagesList.push(user, assistant)) : lines 268-280
RECURSIVE HistoryMessages(_)
HistoryMessages(queries) ==
    IF queries = <<>> THEN <<>>
    ELSE <<[role |-> "user", content |-> Head(queries).question],
           [role |-> "assistant", content |-> Head(queries).gptResponse]>>
         \o HistoryMessages(Tail(queries))

\* variant of MessagesList: the new prompt is put before the history
NewPromptFirst(queries, p) ==
    <<[role |-> "user", content |-> p]>> \o HistoryMessages(queries)

\* messagesList as sent to generateChatGPTResponse : lines 268-284
MessagesList(queries, p) ==
    HistoryMessages(queries) \o <<[role |-> "user", content |-> p]>>

\* murfPayload : lines 288-292
MurfPayload(content) ==
    [voiceId |-> "en-US-marcus", format |-> "MP3", text |-> content]

\* variant of NewGptQueries: the new turn is put in front of the list
PrependsTurn(queries, p, content, audioFile) ==
    <<[question |-> p, gptResponse |-> content, gptResponseAudioUrl |-> audioFile]>>
    \o queries

\* variant of NewGptQueries: the new turn replaces the list
DropsHistory(queries, p, content, audioFile) ==
    <<[question |-> p, gptResponse |-> content, gptResponseAudioUrl |-> audioFile]>>

\* the argument of setGptQueries : lines 296-303
NewGptQueries(queries, p, content, audioFile) ==
    queries \o
    <<[question |-> p, gptResponse |-> content, gptResponseAudioUrl |-> audioFile]>>

\* variant of Disabled: the input and the button stay enabled while LOADING
NeverDisabled == FALSE

\* disabled={status === STATUS_TYPES.LOADING} on the input and on the button
Disabled == status = LOADING

ChatInit ==
    /\ prompt = <<>>
    /\ status = IDLE
    /\ gptQueries = <<>>
    /\ currentAudioId = Undefined
    /\ audioPaused = TRUE
    /\ submits = <<>>

\* onChange of the input field
handlePromptChange(value) ==
    /\ UNCHANGED pipeVars
    /\ ~Disabled
    /\ prompt' = value
    /\ UNCHANGED <<status, gptQueries, currentAudioId, audioPaused, submits>>

\* onClick of the send button, up to the first await. The handler reads the
\* prompt and the gptQueries of the render it was created in.
handlePromptSubmit ==
    /\ UNCHANGED pipeVars
    /\ ~Disabled
    /\ ~IsBlank(prompt)
    /\ Len(gptQueries) < MaxTurns
    /\ status' = LOADING
    /\ submits' = Append(submits,
           [at |-> "generateChatGPTResponse",
            prompt |-> prompt,
            gptQueries |-> gptQueries,
            messagesList |-> MessagesList(gptQueries, prompt),
            content |-> "",
            murfPayload |-> MurfPayload("")])
    /\ UNCHANGED <<prompt, gptQueries, currentAudioId, audioPaused>>

\* onClick of the send button with a blank prompt: the handler returns at once
handlePromptSubmitBlank ==
    /\ UNCHANGED pipeVars
    /\ ~Disabled
    /\ IsBlank(prompt)
    /\ UNCHANGED chatVars

\* await generateChatGPTResponse resolves; the handler runs up to the next await
GptResolves(k, content) ==
    /\ UNCHANGED pipeVars
    /\ k \in 1..Len(submits)
    /\ submits[k].at = "generateChatGPTResponse"
    /\ submits' = [submits EXCEPT ![k] =
           [@ EXCEPT !.at = "generateSpeechWithKey",
                     !.content = content,
                     !.murfPayload = MurfPayload(content)]]
    /\ UNCHANGED <<prompt, status, gptQueries, currentAudioId, audioPaused>>

\* variant of CallRejects: the question is recorded although the call failed
RejectRecordsQuestion(k) ==
    /\ UNCHANGED pipeVars
    /\ k \in 1..Len(submits)
    /\ gptQueries' = Append(gptQueries,
           [question |-> submits[k].prompt, gptResponse |-> "",
            gptResponseAudioUrl |-> AudioFileOf("")])
    /\ submits' = RemoveAt(submits, k)
    /\ UNCHANGED <<prompt, status, currentAudioId, audioPaused>>

\* await generateChatGPTResponse or await generateSpeechWithKey rejects: the
\* handler is left by the exception, nothing after the await runs
CallRejects(k) ==
    /\ UNCHANGED pipeVars
    /\ k \in 1..Len(submits)
    /\ submits' = RemoveAt(submits, k)
    /\ UNCHANGED <<prompt, status, gptQueries, currentAudioId, audioPaused>>

\* await generateSpeechWithKey resolves; the handler runs to its end
MurfResolves(k) ==
    /\ UNCHANGED pipeVars
    /\ k \in 1..Len(submits)
    /\ submits[k].at = "generateSpeechWithKey"
    /\ gptQueries' = NewGptQueries(submits[k].gptQueries, submits[k].prompt,
                                   submits[k].content,
                                   AudioFileOf(submits[k].murfPayload.text))
    /\ prompt' = <<>>
    /\ status' = IDLE
    /\ submits' = RemoveAt(submits, k)
    /\ UNCHANGED <<currentAudioId, audioPaused>>

\* variant of handleAudioPlay: the turns are numbered from 1
PlayCountsFromOne(audioIdToPlay) ==
    /\ UNCHANGED pipeVars
    /\ audioIdToPlay \in 0..(Len(gptQueries) - 1)
    /\ IF currentAudioId = audioIdToPlay + 1
          THEN /\ audioPaused' = TRUE
               /\ currentAudioId' = Undefined
          ELSE /\ currentAudioId' = audioIdToPlay + 1
               /\ audioPaused' = FALSE
    /\ UNCHANGED <<prompt, status, gptQueries, submits>>

\* onClick of the play/pause button of turn audioIdToPlay
handleAudioPlay(audioIdToPlay) ==
    /\ UNCHANGED pipeVars
    /\ audioIdToPlay \in 0..(Len(gptQueries) - 1)
    /\ IF currentAudioId = audioIdToPlay
          THEN /\ audioPaused' = TRUE
               /\ currentAudioId' = Undefined
          ELSE /\ currentAudioId' = audioIdToPlay
               /\ audioPaused' = FALSE
    /\ UNCHANGED <<prompt, status, gptQueries, submits>>

\* onEnded of the audio element
handleOnAudioPlayEnd ==
    /\ UNCHANGED pipeVars
    /\ currentAudioId # Undefined
    /\ ~audioPaused
    /\ currentAudioId' = Undefined
    /\ audioPaused' = TRUE
    /\ UNCHANGED <<prompt, status, gptQueries, submits>>

ChatNext ==
    \/ \E value \in Prompts : handlePromptChange(value)
    \/ handlePromptSubmit
    \/ handlePromptSubmitBlank
    \/ \E k \in 1..Len(submits), content \in ChatReplies : GptResolves(k, content)
    \/ \E k \in 1..Len(submits) : CallRejects(k)
    \/ \E k \in 1..Len(submits) : MurfResolves(k)
    \/ \E id \in 0..(MaxTurns - 1) : handleAudioPlay(id)
    \/ handleOnAudioPlayEnd


-----------------------------------------------------------------------------
(*                get_ai_video  (dall-e-murf.mdx)                          *)

\* The requests in flight on the server (FastAPI runs a "def" endpoint in a
\* thread pool, one thread per request).
Invocations == {1, 2}

Texts == {"t1", "t2"}
ImagePrompts == {"p1", "p2"}
VoiceIds == {"v1", "v2"}
\* a key the JSON object does not have
Missing == "(missing)"

\* audio_clip.duration of a generated voice-over, in milliseconds
Durations == {1500, 2000}

\* A directive with its three keys, and directives that lack one of them.
Directives == [text : Texts, imagePrompt : ImagePrompts, voiceId : VoiceIds]
Incomplete ==
    { [text |-> Missing, imagePrompt |-> "p1", voiceId |-> "v1"],
      [text |-> "t1", imagePrompt |-> Missing, voiceId |-> "v1"],
      [text |-> "t1", imagePrompt |-> "p1", voiceId |-> Missing] }

\* The value of the key "script" of the parsed reply: a JSON array of objects, no
\* such key, a value a for loop cannot iterate (a number, null), or an empty
\* value that is no array ("" or {}), over which a for loop runs zero times.
ScriptValue(kind, items) == [kind |-> kind, items |-> items]
NoScript == ScriptValue("absent", <<>>)

\* What the language model may send back to get_script.
Replies ==
    {[wellFormed |-> FALSE, script |-> NoScript]}
    \cup {[wellFormed |-> TRUE, script |-> ScriptValue(k, <<>>)] :
             k \in {"absent", "number", "emptyObject"}}
    \cup {[wellFormed |-> TRUE, script |-> ScriptValue("array", items)] :
             items \in SeqsUpTo(Directives \cup Incomplete, MaxScriptLen)}

\* The replies and script lengths used when two requests run side by side.
ConcurrentDirectives ==
    { [text |-> "t1", imagePrompt |-> "p1", voiceId |-> "v1"],
      [text |-> "t2", imagePrompt |-> "p2", voiceId |-> "v1"] }
ConcurrentReplies ==
    {[wellFormed |-> TRUE, script |-> ScriptValue("array", items)] :
        items \in (SeqsUpTo(ConcurrentDirectives, MaxScriptLen) \ {<<>>})}

NoReply == [wellFormed |-> FALSE, script |-> ScriptValue("none", <<>>)]

\* Files of the working directory and what they hold.
NoFile == [kind |-> "none"]
PartialFile == [kind |-> "partial"]
ImagePath(c) == <<"image_.png", c>>
AudioPath(c) == <<"audio_.wav", c>>
OutputPath == <<"output_video.mp4", 0>>
ScratchPaths ==
    {ImagePath(c) : c \in 0..(MaxScriptLen - 1)}
    \cup {AudioPath(c) : c \in 0..(MaxScriptLen - 1)}
Paths == ScratchPaths \cup {OutputPath}

\* get_image: the URL of the image DALL-E made for a prompt
ImageUrl(imagePrompt) == [kind |-> "image", imagePrompt |-> imagePrompt]

\* get_voiceover_url: the URL of the audio Murf made of a text with a voice
AudioUrl(text, voice_id, ms) ==
    [kind |-> "audio", text |-> text, voiceId |-> voice_id, ms |-> ms]

\* download_file: what is written to the local file is what the URL holds
Download(url) == url

\* int(x) of a non-negative duration given in milliseconds
IntSeconds(ms) == ms \div 1000

\* variant of ClipDuration: without the second of padding
DurationWithoutPadding(audio_clip) == IntSeconds(audio_clip.ms)

\* duration=(int(audio_clip.duration) + 1) : line 282
ClipDuration(audio_clip) == IntSeconds(audio_clip.ms) + 1

\* ImageClip(image_path, duration=...).set_audio(audio_clip) : lines 280-284
VideoClip(image, audio_clip) ==
    [image |-> image, audio |-> audio_clip, duration |-> ClipDuration(audio_clip)]

RECURSIVE ClipDurations(_)
ClipDurations(clips) ==
    IF clips = <<>> THEN <<>>
    ELSE <<Head(clips).duration>> \o ClipDurations(Tail(clips))

\* concatenate_videoclips(video_clips) : line 290
Concatenate(clips) ==
    [kind |-> "video", clips |-> clips, duration |-> SumSeq(ClipDurations(clips))]

\* variant of AppendPair: the pair is put in front
PrependPair(list, pair) == <<pair>> \o list

\* data_list.append({"imageUrl": image_url, "audioUrl": audio_url}) : line 340
AppendPair(list, pair) == Append(list, pair)

NoResult == [kind |-> "none"]
Exception(raisedBy, exc) == [kind |-> "exception", raisedBy |-> raisedBy, exc |-> exc]
FileResponse(path) == [kind |-> "FileResponse", path |-> path, media_type |-> "video/mp4"]

PipeInit ==
    /\ pc = [i \in Invocations |-> "idle"]
    /\ reply = [i \in Invocations |-> NoReply]
    /\ script_arr = [i \in Invocations |-> NoScript]
    /\ idx = [i \in Invocations |-> 0]
    /\ image_url = [i \in Invocations |-> NoFile]
    /\ data_list = [i \in Invocations |-> <<>>]
    /\ calls = [i \in Invocations |-> <<>>]
    /\ counter = [i \in Invocations |-> 0]
    /\ video_clips = [i \in Invocations |-> <<>>]
    /\ final_video = [i \in Invocations |-> NoFile]
    /\ result = [i \in Invocations |-> NoResult]
    /\ delivered = [i \in Invocations |-> NoFile]
    /\ files = [p \in Paths |-> NoFile]

\* The locals an exception leaves as they are.
locals == <<script_arr, idx, image_url, data_list, counter, video_clips,
            final_video, delivered>>

\* variant of Raise: a failed synthesis call is caught and its directive skipped
SwallowAndSkip(i, e) ==
    /\ pc' = [pc EXCEPT ![i] = IF e.raisedBy \in {"get_image", "get_voiceover_url"}
                                  THEN "for" ELSE "failed"]
    /\ result' = [result EXCEPT ![i] =
                     IF e.raisedBy \in {"get_image", "get_voiceover_url"}
                        THEN @ ELSE e]
    /\ idx' = [idx EXCEPT ![i] =
                  IF e.raisedBy \in {"get_image", "get_voiceover_url"}
                     THEN @ + 1 ELSE @]
    /\ UNCHANGED <<script_arr, image_url, data_list, counter, video_clips,
                   final_video, delivered>>

\* variant of Raise: a failed download is caught and its pair skipped
IgnoreFailedDownload(i, e) ==
    /\ pc' = [pc EXCEPT ![i] = IF e.raisedBy = "download_file" THEN "for_data"
                                                              ELSE "failed"]
    /\ result' = [result EXCEPT ![i] = IF e.raisedBy = "download_file" THEN @ ELSE e]
    /\ counter' = [counter EXCEPT ![i] =
                      IF e.raisedBy = "download_file" THEN @ + 1 ELSE @]
    /\ UNCHANGED <<script_arr, idx, image_url, data_list, video_clips,
                   final_video, delivered>>

\* An exception nothing catches: get_ai_video has no try, so the exception
\* leaves the endpoint and the request ends (FastAPI answers 500)
Raise(i, e) ==
    /\ pc' = [pc EXCEPT ![i] = "failed"]
    /\ result' = [result EXCEPT ![i] = e]
    /\ UNCHANGED locals

\* a client sends GET /generate-video
Request(i) ==
    /\ UNCHANGED chatVars
    /\ pc[i] = "idle"
    /\ pc' = [pc EXCEPT ![i] = "get_script"]
    /\ UNCHANGED <<reply, result, calls, files>>
    /\ UNCHANGED locals

\* get_script(prompt) and script["script"] : lines 107-123, 332-335
GetScript(i, r, ok) ==
    /\ UNCHANGED chatVars
    /\ pc[i] = "get_script"
    /\ UNCHANGED <<calls, files>>
    /\ IF ~ok
          THEN /\ Raise(i, Exception("get_script", "APIError"))
               /\ UNCHANGED reply
          ELSE /\ reply' = [reply EXCEPT ![i] = r]
               /\ IF ~r.wellFormed
                     THEN Raise(i, Exception("get_script", "JSONDecodeError"))
                     ELSE IF r.script.kind = "absent"
                             THEN Raise(i, Exception("get_ai_video", "KeyError"))
                             ELSE /\ script_arr' = [script_arr EXCEPT ![i] = r.script]
                                  /\ data_list' = [data_list EXCEPT ![i] = <<>>]
                                  /\ idx' = [idx EXCEPT ![i] = 0]
                                  /\ pc' = [pc EXCEPT ![i] = "for"]
                                  /\ UNCHANGED <<image_url, counter, video_clips,
                                                 final_video, delivered, result>>

\* for item in script_arr, over a value that cannot be iterated : line 337
ForNotIterable(i) ==
    /\ UNCHANGED chatVars
    /\ pc[i] = "for"
    /\ script_arr[i].kind = "number"
    /\ Raise(i, Exception("get_ai_video", "TypeError"))
    /\ UNCHANGED <<reply, calls, files>>

\* image_url = get_image(item["imagePrompt"]) : line 338, lines 130-139
GetImage(i, ok) ==
    /\ UNCHANGED chatVars
    /\ pc[i] = "for"
    /\ script_arr[i].kind = "array"
    /\ idx[i] < Len(script_arr[i].items)
    /\ UNCHANGED <<reply, files>>
    /\ LET item == script_arr[i].items[idx[i] + 1] IN
       IF item.imagePrompt = Missing
          THEN /\ Raise(i, Exception("get_ai_video", "KeyError"))
               /\ UNCHANGED calls
          ELSE /\ calls' = [calls EXCEPT ![i] = Append(@,
                      [service |-> "get_image", imagePrompt |-> item.imagePrompt,
                       ok |-> ok])]
               /\ IF ok
                     THEN /\ image_url' = [image_url EXCEPT ![i] =
                                              ImageUrl(item.imagePrompt)]
                          /\ pc' = [pc EXCEPT ![i] = "get_voiceover_url"]
                          /\ UNCHANGED <<script_arr, idx, data_list, counter,
                                         video_clips, final_video, delivered, result>>
                     ELSE Raise(i, Exception("get_image", "APIError"))

\* audio_url = get_voiceover_url(item["text"], item["voiceId"]) and
\* data_list.append(...) : lines 339-340, lines 162-176
GetVoiceover(i, ok, ms) ==
    /\ UNCHANGED chatVars
    /\ pc[i] = "get_voiceover_url"
    /\ UNCHANGED <<reply, files>>
    /\ LET item == script_arr[i].items[idx[i] + 1] IN
       IF item.text = Missing \/ item.voiceId = Missing
          THEN /\ Raise(i, Exception("get_ai_video", "KeyError"))
               /\ UNCHANGED calls
          ELSE /\ calls' = [calls EXCEPT ![i] = Append(@,
                      [service |-> "get_voiceover_url", text |-> item.text,
                       voiceId |-> item.voiceId, ok |-> ok])]
               /\ IF ok
                     THEN /\ data_list' = [data_list EXCEPT ![i] = AppendPair(@,
                                 [imageUrl |-> image_url[i],
                                  audioUrl |-> AudioUrl(item.text, item.voiceId, ms)])]
                          /\ idx' = [idx EXCEPT ![i] = @ + 1]
                          /\ pc' = [pc EXCEPT ![i] = "for"]
                          /\ UNCHANGED <<script_arr, image_url, counter, video_clips,
                                         final_video, delivered, result>>
                     ELSE Raise(i, Exception("get_voiceover_url", "KeyError"))

\* res = get_final_video(data_list), up to the first download : lines 342, 269-271
EnterFinalVideo(i) ==
    /\ UNCHANGED chatVars
    /\ pc[i] = "for"
    /\ \/ script_arr[i].kind = "array" /\ idx[i] = Len(script_arr[i].items)
       \/ script_arr[i].kind = "emptyObject"
    /\ video_clips' = [video_clips EXCEPT ![i] = <<>>]
    /\ counter' = [counter EXCEPT ![i] = 0]
    /\ pc' = [pc EXCEPT ![i] = "for_data"]
    /\ UNCHANGED <<reply, script_arr, idx, image_url, data_list, calls,
                   final_video, result, delivered, files>>

\* image_path = download_file(image_url, f"image_{counter}.png") : line 277
DownloadImage(i, ok) ==
    /\ UNCHANGED chatVars
    /\ pc[i] = "for_data"
    /\ counter[i] < Len(data_list[i])
    /\ UNCHANGED reply
    /\ LET url == data_list[i][counter[i] + 1].imageUrl IN
       /\ calls' = [calls EXCEPT ![i] = Append(@,
              [service |-> "download_file", url |-> url, ok |-> ok])]
       /\ IF ok
             THEN /\ files' = [files EXCEPT ![ImagePath(counter[i])] = Download(url)]
                  /\ pc' = [pc EXCEPT ![i] = "download_audio"]
                  /\ UNCHANGED result
                  /\ UNCHANGED locals
             ELSE /\ Raise(i, Exception("download_file", "HTTPError"))
                  /\ UNCHANGED files

\* audio_path = download_file(audio_url, f"audio_{counter}.wav") : line 278
DownloadAudio(i, ok) ==
    /\ UNCHANGED chatVars
    /\ pc[i] = "download_audio"
    /\ UNCHANGED reply
    /\ LET url == data_list[i][counter[i] + 1].audioUrl IN
       /\ calls' = [calls EXCEPT ![i] = Append(@,
              [service |-> "download_file", url |-> url, ok |-> ok])]
       /\ IF ok
             THEN /\ files' = [files EXCEPT ![AudioPath(counter[i])] = Download(url)]
                  /\ pc' = [pc EXCEPT ![i] = "clip"]
                  /\ UNCHANGED result
                  /\ UNCHANGED locals
             ELSE /\ Raise(i, Exception("download_file", "HTTPError"))
                  /\ UNCHANGED files

\* AudioFileClip(audio_path), ImageClip(image_path, ...), set_audio, append,
\* counter += 1 : lines 280-288. The clips are read from the files as they are now.
MakeClip(i) ==
    /\ UNCHANGED chatVars
    /\ pc[i] = "clip"
    /\ video_clips' = [video_clips EXCEPT ![i] = Append(@,
           VideoClip(files[ImagePath(counter[i])], files[AudioPath(counter[i])]))]
    /\ counter' = [counter EXCEPT ![i] = @ + 1]
    /\ pc' = [pc EXCEPT ![i] = "for_data"]
    /\ UNCHANGED <<reply, script_arr, idx, image_url, data_list, calls,
                   final_video, result, delivered, files>>

\* concatenate_videoclips, write_videofile, close and
\* return FileResponse(output_path) : lines 290-296, 343
WriteVideo(i, ok) ==
    /\ UNCHANGED chatVars
    /\ pc[i] = "for_data"
    /\ counter[i] = Len(data_list[i])
    /\ UNCHANGED reply
    /\ IF video_clips[i] = <<>>
          THEN /\ Raise(i, Exception("get_final_video", "ValueError"))
               /\ UNCHANGED <<calls, files>>
          ELSE /\ calls' = [calls EXCEPT ![i] = Append(@,
                      [service |-> "write_videofile", ok |-> ok])]
               /\ IF ok
                     THEN /\ final_video' = [final_video EXCEPT ![i] =
                                                Concatenate(video_clips[i])]
                          /\ files' = [files EXCEPT ![OutputPath] =
                                          Concatenate(video_clips[i])]
                          /\ result' = [result EXCEPT ![i] = FileResponse(OutputPath)]
                          /\ pc' = [pc EXCEPT ![i] = "respond"]
                          /\ UNCHANGED <<script_arr, idx, image_url, data_list,
                                         counter, video_clips, delivered>>
                     ELSE /\ files' = [files EXCEPT ![OutputPath] = PartialFile]
                          /\ Raise(i, Exception("get_final_video", "IOError"))

\* the server sends the FileResponse: it reads the file of that path now
Respond(i) ==
    /\ UNCHANGED chatVars
    /\ pc[i] = "respond"
    /\ delivered' = [delivered EXCEPT ![i] = files[result[i].path]]
    /\ pc' = [pc EXCEPT ![i] = "done"]
    /\ UNCHANGED <<reply, script_arr, idx, image_url, data_list, calls, counter,
                   video_clips, final_video, result, files>>

PipeNext(I, R, O) ==
    \/ \E i \in I : Request(i)
    \/ \E i \in I : pc[i] = "get_script" /\ \E r \in R, ok \in O : GetScript(i, r, ok)
    \/ \E i \in I, ok \in O : GetImage(i, ok)
    \/ \E i \in I, ok \in O, ms \in Durations : GetVoiceover(i, ok, ms)
    \/ \E i \in I : EnterFinalVideo(i)
    \/ \E i \in I, ok \in O : DownloadImage(i, ok)
    \/ \E i \in I, ok \in O : DownloadAudio(i, ok)
    \/ \E i \in I : MakeClip(i)
    \/ \E i \in I, ok \in O : WriteVideo(i, ok)
    \/ \E i \in I : Respond(i)

-----------------------------------------------------------------------------
(* Specifications *)

Init == ChatInit /\ PipeInit

\* the chat form alone
SpecChat == Init /\ [][ChatNext]_vars

\* A pending call of handlePromptSubmit settles: the awaited request to OpenAI
\* or to Murf resolves or rejects.
PendingCallSettles ==
    \E k \in 1..Len(submits) :
        \/ \E content \in ChatReplies : GptResolves(k, content)
        \/ CallRejects(k)
        \/ MurfResolves(k)

\* the chat form, every awaited request settling in the end
SpecChatFair == SpecChat /\ WF_vars(PendingCallSettles)

\* one request to /generate-video, any reply of the language model, any call failing
VideoNext ==
    \/ PipeNext({1}, Replies, BOOLEAN)
    \/ ForNotIterable(1)
SpecVideo == Init /\ [][VideoNext]_vars

\* two requests to /generate-video at the same time, every call succeeding
ConcurrentNext == PipeNext(Invocations, ConcurrentReplies, {TRUE})
SpecConcurrent == Init /\ [][ConcurrentNext]_vars

\* The two programs share nothing: the claims about each are checked under its
\* own specification.
Next == ChatNext \/ VideoNext
Spec == Init /\ [][Next]_vars

-----------------------------------------------------------------------------
(*                             Claims                                      *)

\* ---- C1 ----------------------------------------------------------------
NarrationRefs(queries) == [j \in 1..Len(queries) |-> queries[j].gptResponseAudioUrl]

SubmitAddsOneTurn(k) ==
    LET n == Len(HistoryMessages(submits[k].gptQueries))
        after == HistoryMessages(gptQueries')
    IN  /\ Len(HistoryMessages(gptQueries)) = n
        /\ Len(after) = n + 2
        /\ after[n + 1] = [role |-> "user", content |-> submits[k].prompt]
        /\ after[n + 2].role = "assistant"
        /\ Len(NarrationRefs(gptQueries')) = Len(NarrationRefs(gptQueries)) + 1
        /\ Len(NarrationRefs(gptQueries')) = Len(gptQueries')

\* C1: a submit that succeeds on a history of n messages (n/2 turns) leaves
\* n + 2 messages, the last two being the new user turn and the new assistant
\* turn, and one more narration reference (gptResponseAudioUrl) than before.
C1_SubmitAddsTwoMessages ==
    [][\A k \in 1..Len(submits) : MurfResolves(k) => SubmitAddsOneTurn(k)]_vars

\* a second submit has succeeded, on a history that already held a turn
C1_Witness == Len(gptQueries) = 2 /\ status = IDLE /\ submits = <<>>

\* ---- C2 ----------------------------------------------------------------
\* C2: at most one handlePromptSubmit is pending per form; while one is pending
\* the form is LOADING, a further submit is not accepted, and the pending
\* handler holds the current gptQueries, so that what it writes loses no turn.
C2_AtMostOneSubmitInFlight ==
    /\ Len(submits) <= 1
    /\ \A k \in 1..Len(submits) :
          /\ status = LOADING
          /\ submits[k].gptQueries = gptQueries
          /\ submits[k].prompt = prompt
          /\ ~ENABLED handlePromptSubmit

\* a submit is pending on a history that holds a turn already
C2_Witness ==
    /\ Len(submits) = 1
    /\ submits[1].at = "generateSpeechWithKey"
    /\ Len(gptQueries) = 1

\* ---- C3 ----------------------------------------------------------------
BuiltFrom(pair, item) ==
    /\ pair.imageUrl = ImageUrl(item.imagePrompt)
    /\ pair.audioUrl.kind = "audio"
    /\ pair.audioUrl.text = item.text
    /\ pair.audioUrl.voiceId = item.voiceId

InFinalVideo(i) == pc[i] \in {"for_data", "download_audio", "clip", "respond", "done"}

\* C3: the loop of get_ai_video builds pair j from directive j (its imagePrompt,
\* text and voiceId), it hands get_final_video exactly one pair per directive,
\* and the video returned has one segment per pair, in script order.
C3_PairsAndSegmentsInScriptOrder ==
    \A i \in Invocations :
        LET items == script_arr[i].items IN
        /\ Len(data_list[i]) <= Len(items)
        /\ \A j \in 1..Len(data_list[i]) : BuiltFrom(data_list[i][j], items[j])
        /\ InFinalVideo(i) => Len(data_list[i]) = Len(items)
        /\ result[i].kind = "FileResponse" =>
              /\ Len(final_video[i].clips) = Len(items)
              /\ \A j \in 1..Len(items) :
                    /\ final_video[i].clips[j].image = Download(data_list[i][j].imageUrl)
                    /\ final_video[i].clips[j].audio = Download(data_list[i][j].audioUrl)

\* a video of two directives that differ in every key has been returned
C3_Witness ==
    /\ pc[1] = "done"
    /\ Len(script_arr[1].items) = 2
    /\ script_arr[1].items[1].text # script_arr[1].items[2].text
    /\ script_arr[1].items[1].imagePrompt # script_arr[1].items[2].imagePrompt
    /\ script_arr[1].items[1].voiceId # script_arr[1].items[2].voiceId

\* ---- C4 ----------------------------------------------------------------
\* floor of a duration of ms milliseconds, in seconds
FloorSeconds(ms) == CHOOSE n \in 0..ms : n * 1000 <= ms /\ ms < (n + 1) * 1000

RECURSIVE PaddedDurations(_)
PaddedDurations(list) ==
    IF list = <<>> THEN <<>>
    ELSE <<FloorSeconds(Head(list).audioUrl.ms) + 1>> \o PaddedDurations(Tail(list))

SynthesisServices == {"get_image", "get_voiceover_url"}

FailedSynthesisCalls(i) ==
    {c \in 1..Len(calls[i]) :
        calls[i][c].service \in SynthesisServices /\ ~calls[i][c].ok}

IdentifiesIndex(e, n) == "index" \in DOMAIN e /\ e.index = n

NoArtifact(i) ==
    /\ result[i].kind # "FileResponse"
    /\ delivered[i] = NoFile
    /\ final_video[i] = NoFile

RECURSIVE SynthesisCalls(_)
SynthesisCalls(items) ==
    IF items = <<>> THEN <<>>
    ELSE <<[service |-> "get_image", imagePrompt |-> Head(items).imagePrompt,
            ok |-> TRUE],
           [service |-> "get_voiceover_url", text |-> Head(items).text,
            voiceId |-> Head(items).voiceId, ok |-> TRUE]>>
         \o SynthesisCalls(Tail(items))

RECURSIVE DownloadCalls(_)
DownloadCalls(list) ==
    IF list = <<>> THEN <<>>
    ELSE <<[service |-> "download_file", url |-> Head(list).imageUrl, ok |-> TRUE],
           [service |-> "download_file", url |-> Head(list).audioUrl, ok |-> TRUE]>>
         \o DownloadCalls(Tail(list))

\* every call of a complete run, each having succeeded
CallsOfCompleteRun(i) ==
    SynthesisCalls(script_arr[i].items) \o DownloadCalls(data_list[i])
    \o <<[service |-> "write_videofile", ok |-> TRUE]>>

\* C6: get_ai_video returns a video only after the image call, the voice call
\* and both downloads of every directive and the encode have succeeded, and
\* that video has one segment per directive; a run in which a call failed ends
\* with an exception and returns nothing.
C6_NoPartialVideo ==
    \A i \in Invocations :
        /\ result[i].kind = "FileResponse" =>
              /\ script_arr[i].kind = "array"
              /\ Len(script_arr[i].items) >= 1
              /\ calls[i] = CallsOfCompleteRun(i)
              /\ Len(final_video[i].clips) = Len(script_arr[i].items)
        /\ (\E c \in 1..Len(calls[i]) : ~calls[i][c].ok) =>
              pc[i] = "failed" /\ result[i].kind = "exception" /\ delivered[i] = NoFile
        /\ result[i].kind # "FileResponse" => delivered[i] = NoFile
        /\ pc[i] = "done" =>
              /\ result[i].kind = "FileResponse"
              /\ Len(final_video[i].clips) = Len(script_arr[i].items)

\* a video of two segments has been sent after nine successful calls
C6_Witness ==
    /\ pc[1] = "done"
    /\ Len(calls[1]) = 9
    /\ delivered[1].kind = "video"
    /\ Len(delivered[1].clips) = 2

\* ---- C7 ----------------------------------------------------------------
VoiceCalls(i) ==
    {c \in 1..Len(calls[i]) : calls[i][c].service = "get_voiceover_url"}

\* C7 as claimed: all voice-synthesis calls of one invocation use one voiceId.
C7_OneVoicePerScript ==
    \A i \in Invocations :
        \A a, b \in VoiceCalls(i) : calls[i][a].voiceId = calls[i][b].voiceId

\* ---- C8 ----------------------------------------------------------------
RECURSIVE ClipsOf(_)
ClipsOf(list) ==
    IF list = <<>> THEN <<>>
    ELSE <<VideoClip(Download(Head(list).imageUrl), Download(Head(list).audioUrl))>>
         \o ClipsOf(Tail(list))

\* the video composed of the media pairs of one script
VideoOf(list) == Concatenate(ClipsOf(list))

\* C8 as claimed: with invocations running side by side, each caller receives
\* the video composed from the pairs of its own script.
C8_CallerGetsOwnVideo ==
    \A i \in Invocations : pc[i] = "done" => delivered[i] = VideoOf(data_list[i])

\* ---- C9 ----------------------------------------------------------------
\* C9 as claimed: once an invocation has ended, by a return or by an
\* exception, no scratch file (image_i.png, audio_i.wav) is left.
C9_ScratchFilesDeleted ==
    \A i \in Invocations :
        pc[i] \in {"done", "failed"} => \A p \in ScratchPaths : files[p] = NoFile

\* ---- C10 ---------------------------------------------------------------
\* a reply that is no JSON, or has no array "script" of directives with the
\* keys text, imagePrompt and voiceId
Malformed(r) ==
    \/ ~r.wellFormed
    \/ r.script.kind # "array"
    \/ \E j \in 1..Len(r.script.items) :
          \/ r.script.items[j].text = Missing
          \/ r.script.items[j].imagePrompt = Missing
          \/ r.script.items[j].voiceId = Missing

\* C10 as claimed: after a malformed reply no image call, voice call or
\* composition step is started, and the invocation ends with the error of
\* the reply's validation.
C10_MalformedReplyStartsNothing ==
    \A i \in Invocations :
        (reply[i] # NoReply /\ Malformed(reply[i])) =>
            /\ calls[i] = <<>>
            /\ ~InFinalVideo(i)
            /\ pc[i] = "failed" => result[i].raisedBy \in {"get_script", "get_ai_video"}

\* ---- C11 ---------------------------------------------------------------
EmptyScript(r) == r.wellFormed /\ r.script.kind = "array" /\ r.script.items = <<>>

\* C11 as claimed: after a well-formed reply whose script array is empty the
\* invocation ends with a planning error: get_final_video is not entered with
\* an empty list, and the error is not one raised inside get_final_video.
C11_EmptyScriptStopsAtPlanning ==
    \A i \in Invocations :
        EmptyScript(reply[i]) =>
            /\ ~InFinalVideo(i)
            /\ pc[i] = "failed" => result[i].raisedBy \in {"get_script", "get_ai_video"}

\* ---- C12 ---------------------------------------------------------------
\* the conversation in full: question and answer of every turn, in order, and
\* the new prompt last
FullConversation(queries, p) ==
    [j \in 1..(2 * Len(queries) + 1) |->
        IF j = 2 * Len(queries) + 1 THEN [role |-> "user", content |-> p]
        ELSE IF j % 2 = 1
                THEN [role |-> "user", content |-> queries[(j + 1) \div 2].question]
                ELSE [role |-> "assistant",
                      content |-> queries[j \div 2].gptResponse]]

\* C12: a submit sends the language model the full conversation in order with
\* the new prompt last; the text sent to Murf is the reply of that call, and
\* the turn then stored holds that reply and the audio made of it.
C12_FullConversationSentReplyStored ==
    [][/\ handlePromptSubmit =>
             submits'[Len(submits')].messagesList = FullConversation(gptQueries, prompt)
       /\ \A k \in 1..Len(submits) :
             /\ \A content \in ChatReplies :
                   GptResolves(k, content) =>
                       /\ submits'[k].murfPayload =
                             [voiceId |-> "en-US-marcus", format |-> "MP3",
                              text |-> content]
                       /\ submits'[k].content = content
                       /\ submits'[k].messagesList = submits[k].messagesList
             /\ MurfResolves(k) =>
                   /\ submits[k].murfPayload.text = submits[k].content
                   /\ gptQueries'[Len(gptQueries')] =
                         [question |-> submits[k].prompt,
                          gptResponse |-> submits[k].content,
                          gptResponseAudioUrl |-> AudioFileOf(submits[k].content)]
      ]_vars

\* the messages of one recorded turn and a new prompt are with the language model
C12_Witness ==
    /\ Len(submits) = 1
    /\ submits[1].at = "generateChatGPTResponse"
    /\ Len(submits[1].messagesList) = 3
    /\ submits[1].messagesList[2].content = "r2"

\* ---- C13 ---------------------------------------------------------------
IsPrefix(a, b) == Len(a) <= Len(b) /\ SubSeq(b, 1, Len(a)) = a

\* C13: gptQueries is append-only: in every step, whatever the handler, the
\* list before is a prefix of the list after.
C13_HistoryAppendOnly == [][IsPrefix(gptQueries, gptQueries')]_vars

\* two different turns are recorded and the form is idle again
C13_Witness ==
    /\ Len(gptQueries) = 2
    /\ gptQueries[1] # gptQueries[2]
    /\ status = IDLE
    /\ currentAudioId = Undefined

\* ---- C14 ---------------------------------------------------------------
\* C14: when the call to the language model or to Murf fails, gptQueries (and
\* with it every narration reference) is what it was when the submit began.
C14_FailedSubmitLeavesHistory ==
    [][\A k \in 1..Len(submits) :
          CallRejects(k) =>
              /\ gptQueries' = gptQueries
              /\ gptQueries' = submits[k].gptQueries
              /\ NarrationRefs(gptQueries') = NarrationRefs(submits[k].gptQueries)
      ]_vars

\* a submit on a history of one turn has failed
C14_Witness ==
    /\ status = LOADING
    /\ submits = <<>>
    /\ Len(gptQueries) = 1

\* ---- C15 ---------------------------------------------------------------
\* C15 as claimed: whenever the form is LOADING it is IDLE again later.
C15_LoadingLeadsToIdle == (status = LOADING) ~> (status = IDLE)

\* ---- C16 ---------------------------------------------------------------
\* the turns whose button shows "Pause"
ShownPlaying == {id \in 0..(Len(gptQueries) - 1) : currentAudioId = id}

\* C16: currentAudioId is undefined or an index of gptQueries, so that the
\* src of the audio element is defined, and at most one turn shows "Pause".
C16_CurrentAudioIdValid ==
    /\ currentAudioId = Undefined \/ currentAudioId \in 0..(Len(gptQueries) - 1)
    /\ currentAudioId # Undefined => (currentAudioId + 1) \in DOMAIN gptQueries
    /\ Cardinality(ShownPlaying) <= 1
    /\ (currentAudioId # Undefined) = (ShownPlaying # {})

\* the second of two turns is playing
C16_Witness ==
    /\ Len(gptQueries) = 2
    /\ currentAudioId = 1
    /\ ~audioPaused

=============================================================================
